---- MODULE Spec2Model ----
(***************************************************************************)
(* The "Forecasting Demo" tab of src/portfolio.py (forecasting_app) and    *)
(* the accuracy functions it calls, as a state machine.                    *)
(*                                                                         *)
(* Timestamps are counted in ticks (TicksPerDay ticks per day) since       *)
(* 2023-01-01 00:00, a Sunday.  Numeric cells are exact rationals          *)
(* [n, d] with d > 0; the missing value (NaN) is [n |-> 0, d |-> 0] and    *)
(* the missing timestamp (NaT) is -1.  Floating-point rounding is not      *)
(* modelled: arithmetic is exact.                                          *)
(***************************************************************************)
EXTENDS Integers, Sequences, FiniteSets, TLC

VARIABLES
    PROPHET_AVAILABLE,  \* module flag, src/portfolio.py:21-25
    pc,                 \* position of the script run inside forecasting_app
    df,                 \* the table: raw after upload, prepared after line 452
    uploaded_data,      \* st.session_state.uploaded_data
    item_col,           \* "No filter" or the name of the item column
    selected_items,     \* the multiselect's list, in selection order
    method,             \* "Prophet (recommended)" or "Simple Trend"
    freq,               \* "Daily", "Weekly" or "Monthly"
    forecast_end_date,  \* the date picked in st.date_input, as a timestamp
    last_date,          \* df['ds'].max()
    horizon,            \* number of periods, lines 495-504
    item_idx,           \* position of the per-item loop in selected_items
    all_forecasts,      \* list of per-series result tables
    combined_result,    \* the final table (after concat, clip, end-date filter)
    metrics,            \* the accuracy metrics computed in this run
    ui,                 \* what the run has written to the page, in order
    y_true,             \* evaluator input (observed)
    y_pred,             \* evaluator input (estimates)
    scores,             \* evaluator output
    selected_nav,       \* the sidebar radio's value, line 847
    nav,                \* st.session_state.nav, lines 946-952
    clicked,            \* the quick-action button that is True in this script run
    page,               \* the section the script run rendered, lines 894-1471
    reruns              \* script runs since the session opened

vars == <<PROPHET_AVAILABLE, pc, df, uploaded_data, item_col,
          selected_items, method, freq, forecast_end_date, last_date, horizon,
          item_idx, all_forecasts, combined_result, metrics, ui,
          y_true, y_pred, scores, selected_nav, nav, clicked, page, reruns>>

-----------------------------------------------------------------------------
(* Bounds of the model *)

\* ticks per day: 2 gives timestamps at 00:00 and 12:00
TicksPerDay == 2
\* row timestamps lie in DataStart .. DataStart + MaxTick ticks
MaxTick == 3
\* observed values are the integers 0 .. MaxVal
MaxVal == 1
\* an uploaded table has at most MaxRows rows
MaxRows == 3
\* the end date is at most MaxAhead days after the day of the last observation
MaxAhead == 2
\* the horizon specification draws the last observation from LastSpan days
\* starting 2023-12-01 and the end date from the HorizonSpan days after it
LastSpan == 62
HorizonSpan == 92
\* the evaluator specification draws sequences of at most MaxEvalLen values:
\* observed values -MaxEvalVal .. MaxEvalVal and 1/2; estimates
\* 0 .. MaxEvalVal and 1/2
MaxEvalLen == 3
MaxEvalVal == 1
\* the preparer specification draws tables of at most MaxPrepRows rows whose
\* date cells are DataStart .. DataStart + MaxPrepTick ticks, empty, or text
\* that is no date
MaxPrepRows == 3
MaxPrepTick == 1

\* script runs of one session that are followed
MaxReruns == 5

-----------------------------------------------------------------------------
(* Exact rational arithmetic *)

Abs(x) == IF x < 0 THEN -x ELSE x

Max(a, b) == IF a >= b THEN a ELSE b

RECURSIVE GCD(_, _)
GCD(a, b) == IF b = 0 THEN a ELSE GCD(b, a % b)

NaN == [n |-> 0, d |-> 0]

IsNaN(q) == q.d = 0

Frac(num, den) ==
    LET g == GCD(Abs(num), Abs(den))
        s == IF den < 0 THEN -1 ELSE 1
    IN  IF den = 0 THEN NaN ELSE [n |-> s * (num \div g), d |-> s * (den \div g)]

Num(v) == [n |-> v, d |-> 1]

FAdd(p, q) == IF IsNaN(p) \/ IsNaN(q) THEN NaN ELSE Frac(p.n * q.d + q.n * p.d, p.d * q.d)

FSub(p, q) == IF IsNaN(p) \/ IsNaN(q) THEN NaN ELSE Frac(p.n * q.d - q.n * p.d, p.d * q.d)

FMul(p, q) == IF IsNaN(p) \/ IsNaN(q) THEN NaN ELSE Frac(p.n * q.n, p.d * q.d)

\* division by zero gives NaN here; callers guard it where the code does
FDiv(p, q) == IF IsNaN(p) \/ IsNaN(q) \/ q.n = 0 THEN NaN ELSE Frac(p.n * q.d, p.d * q.n)

FAbs(p) == [n |-> Abs(p.n), d |-> p.d]

\* comparisons with NaN are false, as in IEEE arithmetic
FLe(p, q) == ~IsNaN(p) /\ ~IsNaN(q) /\ p.n * q.d <= q.n * p.d

FLt(p, q) == ~IsNaN(p) /\ ~IsNaN(q) /\ p.n * q.d < q.n * p.d

FMax(p, q) == IF IsNaN(p) \/ IsNaN(q) THEN NaN ELSE IF FLe(q, p) THEN p ELSE q

RECURSIVE FSum(_)
FSum(s) == IF s = <<>> THEN Num(0) ELSE FAdd(Head(s), FSum(Tail(s)))

RECURSIVE ISum(_)
ISum(s) == IF s = <<>> THEN 0 ELSE Head(s) + ISum(Tail(s))

-----------------------------------------------------------------------------
(* Calendar: pandas Timestamp arithmetic *)

NaT == 0 - 1

IsLeap(y) == (y % 4 = 0 /\ y % 100 # 0) \/ y % 400 = 0

DaysInMonth(y, m) ==
    IF m = 2 THEN (IF IsLeap(y) THEN 29 ELSE 28)
    ELSE IF m \in {4, 6, 9, 11} THEN 30 ELSE 31

\* days from 2023-01-01 to the first day of month m of year y
RECURSIVE DaysBeforeMonth(_, _)
DaysBeforeMonth(y, m) ==
    IF y = 2023 /\ m = 1 THEN 0
    ELSE LET py == IF m = 1 THEN y - 1 ELSE y
             pm == IF m = 1 THEN 12 ELSE m - 1
         IN  DaysBeforeMonth(py, pm) + DaysInMonth(py, pm)

\* the timestamp of civil date y-m-d at tick t of the day
Timestamp(y, m, d, t) == (DaysBeforeMonth(y, m) + d - 1) * TicksPerDay + t

RECURSIVE CivilFrom(_, _, _)
CivilFrom(y, m, n) ==
    IF n < DaysInMonth(y, m) THEN [year |-> y, month |-> m, day |-> n + 1]
    ELSE CivilFrom(IF m = 12 THEN y + 1 ELSE y, IF m = 12 THEN 1 ELSE m + 1,
                   n - DaysInMonth(y, m))

\* Timestamp.year / .month / .day
Civil(ts) == CivilFrom(2023, 1, ts \div TicksPerDay)

\* Timestamp.date() as a timestamp: the same day at 00:00
DateOf(ts) == (ts \div TicksPerDay) * TicksPerDay

\* ts + pd.Timedelta(days=k)
AddDays(ts, k) == ts + k * TicksPerDay

\* Timedelta.days of (a - b): whole days, rounded down
DeltaDays(a, b) ==
    LET t == a - b
    IN  IF t >= 0 THEN t \div TicksPerDay ELSE 0 - ((0 - t + TicksPerDay - 1) \div TicksPerDay)

\* len(pd.date_range(start, end, freq='D')): start, start+1d, ... while <= end
DateRangeLen(start, end) == IF end < start THEN 0 ELSE (end - start) \div TicksPerDay + 1

\* FutureDates with the slice [:-1] instead of [1:]: start itself is kept
FutureDates_from_start(start, p) == [k \in 1 .. (p - 1) |-> AddDays(start, k - 1)]

\* pd.date_range(start, periods=p, freq='D')[1:]
FutureDates(start, p) == [k \in 1 .. (p - 1) |-> AddDays(start, k)]

-----------------------------------------------------------------------------
(* Horizon conversion, lines 491-504 *)

Frequencies == {"Daily", "Weekly", "Monthly"}

\* MonthDiff with the year term forgotten
MonthDiff_no_year(last, end) == Civil(end).month - Civil(last).month

\* (end.year - last.year) * 12 + (end.month - last.month)
MonthDiff(last, end) ==
    (Civil(end).year - Civil(last).year) * 12 + (Civil(end).month - Civil(last).month)

\* HorizonOf with both end points counted for Daily (the "- 1" of line 496
\* left out)
HorizonOf_inclusive(f, last, end) ==
    LET date_range_len == DateRangeLen(last, end)
        h == IF f = "Daily" THEN date_range_len
             ELSE IF f = "Weekly" THEN date_range_len \div 7
             ELSE MonthDiff(last, end)
    IN  Max(1, h)

\* lines 493-504
HorizonOf(f, last, end) ==
    LET date_range_len == DateRangeLen(last, end)
        h == IF f = "Daily" THEN date_range_len - 1
             ELSE IF f = "Weekly" THEN date_range_len \div 7
             ELSE MonthDiff(last, end)
    IN  Max(1, h)

-----------------------------------------------------------------------------
(* Accuracy functions, lines 316-348 *)

SeqIdx(s) == 1 .. Len(s)

\* np.mean of a non-empty sequence of rationals
Mean(s) == FDiv(FSum(s), Num(Len(s)))

SqErr(yt, yp) == [i \in SeqIdx(yt) |-> FMul(FSub(yt[i], yp[i]), FSub(yt[i], yp[i]))]

\* A percentage that may contain terms divided by machine epsilon:
\* the value is big / eps + fin.  Observed values are either 0 or at least
\* eps in magnitude, so max(|y|, eps) is eps for y = 0 and |y| otherwise.
safe_mape(yt, yp) ==
    LET bigs == [i \in SeqIdx(yt) |->
                    IF yt[i].n = 0 THEN FAbs(FSub(yt[i], yp[i])) ELSE Num(0)]
        fins == [i \in SeqIdx(yt) |->
                    IF yt[i].n = 0 THEN Num(0)
                    ELSE FAbs(FDiv(FSub(yt[i], yp[i]), FAbs(yt[i])))]
    IN  [big |-> FMul(Mean(bigs), Num(100)), fin |-> FMul(Mean(fins), Num(100))]

\* mean_absolute_percentage_error with np.abs applied to the denominator only
mean_absolute_percentage_error_signed(yt, yp) ==
    LET terms == [i \in SeqIdx(yt) |->
                    FDiv(FSub(yt[i], yp[i]), FMax(FAbs(yt[i]), Num(1)))]
    IN  FMul(Mean(terms), Num(100))

mean_absolute_percentage_error(yt, yp) ==
    LET terms == [i \in SeqIdx(yt) |->
                    FAbs(FDiv(FSub(yt[i], yp[i]), FMax(FAbs(yt[i]), Num(1))))]
    IN  FMul(Mean(terms), Num(100))

\* largest r in lo .. hi with r * r <= k (lo * lo <= k assumed)
RECURSIVE SqrtSearch(_, _, _)
SqrtSearch(lo, hi, k) ==
    IF lo >= hi THEN lo
    ELSE LET mid == (lo + hi + 1) \div 2
         IN  IF mid * mid <= k THEN SqrtSearch(mid, hi, k) ELSE SqrtSearch(lo, mid - 1, k)

\* np.sqrt of a non-negative rational, to three decimals (rounded down)
FSqrt(q) ==
    IF IsNaN(q) \/ q.n < 0 THEN NaN
    ELSE LET k == (q.n * 1000000) \div q.d
         IN  Frac(SqrtSearch(0, 46340, k), 1000)

simple_rmse(yt, yp) == FSqrt(Mean(SqErr(yt, yp)))

\* simple_r2 returning the ratio itself instead of 1 - ratio
simple_r2_ratio(yt, yp) ==
    LET ss_res == FSum(SqErr(yt, yp))
        mu     == Mean(yt)
        ss_tot == FSum([i \in SeqIdx(yt) |-> FMul(FSub(yt[i], mu), FSub(yt[i], mu))])
    IN  IF ss_tot # Num(0) THEN FDiv(ss_res, ss_tot) ELSE Num(0)

\* simple_r2 without the guard on ss_tot: 0 / 0 and x / 0 are not numbers
simple_r2_unguarded(yt, yp) ==
    LET ss_res == FSum(SqErr(yt, yp))
        mu     == Mean(yt)
        ss_tot == FSum([i \in SeqIdx(yt) |-> FMul(FSub(yt[i], mu), FSub(yt[i], mu))])
    IN  FSub(Num(1), FDiv(ss_res, ss_tot))

simple_r2(yt, yp) ==
    LET ss_res == FSum(SqErr(yt, yp))
        mu     == Mean(yt)
        ss_tot == FSum([i \in SeqIdx(yt) |-> FMul(FSub(yt[i], mu), FSub(yt[i], mu))])
    IN  IF ss_tot # Num(0) THEN FSub(Num(1), FDiv(ss_res, ss_tot)) ELSE Num(0)

-----------------------------------------------------------------------------
(* Linear trend, lines 524-539 and 573-586 *)

\* np.polyfit(x, y, 1) for integer x and rational y: the least-squares line.
\* When all x are equal the normal equations are singular (ok = FALSE).
polyfit(xs, ys) ==
    LET n   == Len(xs)
        sx  == ISum(xs)
        sxx == ISum([i \in SeqIdx(xs) |-> xs[i] * xs[i]])
        sy  == FSum(ys)
        sxy == FSum([i \in SeqIdx(xs) |-> FMul(Num(xs[i]), ys[i])])
        den == n * sxx - sx * sx
        slope == FDiv(FSub(FMul(Num(n), sxy), FMul(Num(sx), sy)), Num(den))
    IN  IF den = 0 THEN [ok |-> FALSE, slope |-> NaN, intercept |-> NaN]
        ELSE [ok |-> TRUE, slope |-> slope,
              intercept |-> FDiv(FSub(sy, FMul(slope, Num(sx))), Num(n))]

\* TrendAt with the coefficients of np.polyfit read in the wrong order
TrendAt_swapped(trend, days) == FAdd(FMul(trend.intercept, Num(days)), trend.slope)

\* trend[0] * future_days + trend[1]
TrendAt(trend, days) == FAdd(FMul(trend.slope, Num(days)), trend.intercept)

\* ClipLower left out
ClipLower_missing(q) == q

\* Series.clip(lower=0): NaN stays NaN
ClipLower(q) == IF IsNaN(q) THEN NaN ELSE FMax(q, Num(0))

-----------------------------------------------------------------------------
(* Tables *)

Range(s) == {s[i] : i \in DOMAIN s}

\* a missing group key (NaN in the item column)
ItemNA == "<NA>"
\* the value of the item field when the table has no item column
NoColumn == "<no column>"

Items == {"A", "B"}

\* the first timestamp an uploaded row can carry: 2024-01-30 00:00
DataStart == Timestamp(2024, 1, 30, 0)

\* a date cell of the uploaded file, as text: a civil date and a time of day
DateCell(ts) ==
    [kind |-> "date", year |-> Civil(ts).year, month |-> Civil(ts).month,
     day |-> Civil(ts).day, tick |-> ts % TicksPerDay]

\* pd.to_datetime of one cell: an empty cell becomes NaT
ToDatetime(c) == IF c.kind = "date" THEN Timestamp(c.year, c.month, c.day, c.tick) ELSE NaT

\* pd.to_datetime raises on text that is no date
Parseable(c) == c.kind # "bad"

InputRows ==
    {[date |-> DateCell(DataStart + k), value |-> Num(v), item |-> g] :
        k \in 0 .. MaxTick, v \in 0 .. MaxVal, g \in Items}

\* uploaded tables are enumerated up to the order of their rows: one
\* representative per multiset of rows, listed by value, then item, then date
RowKey(r) ==
    (r.value.n * 2 + (IF r.item = "A" THEN 0 ELSE 1)) * (MaxTick + 1)
        + (ToDatetime(r.date) - DataStart)

Datasets ==
    {s \in UNION {[1 .. n -> InputRows] : n \in 0 .. MaxRows} :
        \A i \in 1 .. (Len(s) - 1) : RowKey(s[i]) <= RowKey(s[i + 1])}

\* st.multiselect over df[item_col].unique(): any subset, in any order
SelectionsOf(S) ==
    {s \in UNION {[1 .. n -> S] : n \in 0 .. Cardinality(S)} :
        \A i, j \in DOMAIN s : i # j => s[i] # s[j]}

\* sort_values("ds"): ascending, rows with equal ds keep their order
InsertByDs(r, t) ==
    LET k == Cardinality({i \in DOMAIN t : t[i].ds <= r.ds})
    IN  SubSeq(t, 1, k) \o <<r>> \o SubSeq(t, k + 1, Len(t))

RECURSIVE SortByDs(_)
SortByDs(s) ==
    IF s = <<>> THEN <<>> ELSE InsertByDs(s[Len(s)], SortByDs(SubSeq(s, 1, Len(s) - 1)))

\* df.dropna(subset=["ds", "y"]): a missing item key does not drop the row
HasNA_subset(r, col) == r.ds = NaT \/ IsNaN(r.y)

\* df.dropna(): a row goes when any of its columns is missing
HasNA(r, col) == r.ds = NaT \/ IsNaN(r.y) \/ (col # "No filter" /\ r.item = ItemNA)

\* PrepareData with df.drop_duplicates('ds') after the sort: of the rows of
\* one item that share a timestamp only the first is kept
PrepareData_dedup(raw, col, sel) ==
    LET parsed   == [i \in DOMAIN raw |->
                        [ds |-> ToDatetime(raw[i].date), y |-> raw[i].value,
                         item |-> raw[i].item]]
        filtered == IF sel # <<>> THEN SelectSeq(parsed, LAMBDA r : r.item \in Range(sel))
                    ELSE parsed
        columns  == [i \in DOMAIN filtered |->
                        [filtered[i] EXCEPT !.item = IF col # "No filter" THEN @ ELSE NoColumn]]
        kept     == SelectSeq(columns, LAMBDA r : ~HasNA(r, col))
        sorted   == SortByDs(kept)
        first(i) == \A j \in 1 .. (i - 1) :
                        sorted[j].ds # sorted[i].ds \/ sorted[j].item # sorted[i].item
    IN  [k \in 1 .. Cardinality({i \in DOMAIN sorted : first(i)}) |->
            sorted[CHOOSE i \in DOMAIN sorted :
                      first(i) /\ Cardinality({j \in 1 .. i : first(j)}) = k]]

\* lines 442-452
PrepareData(raw, col, sel) ==
    LET parsed   == [i \in DOMAIN raw |->
                        [ds |-> ToDatetime(raw[i].date), y |-> raw[i].value,
                         item |-> raw[i].item]]
        filtered == IF sel # <<>> THEN SelectSeq(parsed, LAMBDA r : r.item \in Range(sel))
                    ELSE parsed
        columns  == [i \in DOMAIN filtered |->
                        [filtered[i] EXCEPT !.item = IF col # "No filter" THEN @ ELSE NoColumn]]
        kept     == SelectSeq(columns, LAMBDA r : ~HasNA(r, col))
    IN  SortByDs(kept)

\* df['ds'].max(): NaT for an empty table
MaxDs(t) == IF t = <<>> THEN NaT ELSE CHOOSE m \in {r.ds : r \in Range(t)} : \A r \in Range(t) : r.ds <= m

MinDs(t) == IF t = <<>> THEN NaT ELSE CHOOSE m \in {r.ds : r \in Range(t)} : \A r \in Range(t) : m <= r.ds

-----------------------------------------------------------------------------
(* Forecasters *)

Methods == {"Prophet (recommended)", "Simple Trend"}

\* UseSimpleTrend with the method radio ignored
UseSimpleTrend_absent_only(available, m) == ~available

\* line 522 / 570: the linear path is taken when the library is missing or
\* the user picked "Simple Trend"
UseSimpleTrend(available, m) == ~available \/ m = "Simple Trend"

\* item_data = df[df[item_col] == item][['ds', 'y']]
ItemData(t, it) == SelectSeq(t, LAMBDA r : r.item = it)

\* MergeOuter with the observed column of the right-only rows filled from
\* the estimate (y.fillna(yhat))
MergeOuter_filled(left, right, tag) ==
    LET match(ts) == {k \in DOMAIN right : right[k].ds = ts}
        est(ts, f) == IF match(ts) = {} THEN NaN ELSE right[CHOOSE k \in match(ts) : TRUE][f]
        lrows == [i \in DOMAIN left |->
                    [ds |-> left[i].ds, y |-> left[i].y,
                     yhat |-> est(left[i].ds, "yhat"),
                     yhat_lower |-> est(left[i].ds, "yhat_lower"),
                     yhat_upper |-> est(left[i].ds, "yhat_upper"),
                     item |-> tag]]
        ronly == SelectSeq(right, LAMBDA r : \A i \in DOMAIN left : left[i].ds # r.ds)
        rrows == [k \in DOMAIN ronly |->
                    [ds |-> ronly[k].ds, y |-> ronly[k].yhat, yhat |-> ronly[k].yhat,
                     yhat_lower |-> ronly[k].yhat_lower,
                     yhat_upper |-> ronly[k].yhat_upper, item |-> tag]]
    IN  SortByDs(lrows \o rrows)

\* pd.merge(left, right, on='ds', how='outer') for a right table with
\* distinct ds; tag is the value written to the item column afterwards
MergeOuter(left, right, tag) ==
    LET match(ts) == {k \in DOMAIN right : right[k].ds = ts}
        est(ts, f) == IF match(ts) = {} THEN NaN ELSE right[CHOOSE k \in match(ts) : TRUE][f]
        lrows == [i \in DOMAIN left |->
                    [ds |-> left[i].ds, y |-> left[i].y,
                     yhat |-> est(left[i].ds, "yhat"),
                     yhat_lower |-> est(left[i].ds, "yhat_lower"),
                     yhat_upper |-> est(left[i].ds, "yhat_upper"),
                     item |-> tag]]
        ronly == SelectSeq(right, LAMBDA r : \A i \in DOMAIN left : left[i].ds # r.ds)
        rrows == [k \in DOMAIN ronly |->
                    [ds |-> ronly[k].ds, y |-> NaN, yhat |-> ronly[k].yhat,
                     yhat_lower |-> ronly[k].yhat_lower,
                     yhat_upper |-> ronly[k].yhat_upper, item |-> tag]]
    IN  SortByDs(lrows \o rrows)

\* lines 524-525 / 573-574
FitTrend(hist) ==
    polyfit([i \in DOMAIN hist |-> DeltaDays(hist[i].ds, MinDs(hist))],
            [i \in DOMAIN hist |-> hist[i].y])

\* lines 528-539 / 576-586: the future table of the linear path
FutureFrame(hist, last, h, trend) ==
    LET future_dates == FutureDates(last, h + 1)
        future_forecast == [k \in DOMAIN future_dates |->
                              TrendAt(trend, DeltaDays(future_dates[k], MinDs(hist)))]
    IN  [k \in DOMAIN future_dates |->
            [ds |-> future_dates[k], yhat |-> future_forecast[k],
             yhat_lower |-> FMul(future_forecast[k], Frac(9, 10)),
             yhat_upper |-> FMul(future_forecast[k], Frac(11, 10))]]

\* lines 524-543 / 572-591 (the helper column 'days' is not kept)
SimpleTrendResult(hist, last, h, trend, tag) ==
    MergeOuter(hist, FutureFrame(hist, last, h, trend), tag)

\* The additive model is an external collaborator.  Of its output the
\* model keeps: one row per distinct historical timestamp and per future
\* period, a point estimate inside its band; the estimate is a level p
\* chosen by the library, the band is p - 1 .. p + 1.
ProphetLevels == {0 - 1, 1}

NextMonthEnd(ts) ==
    LET c == Civil(ts)
        ny == IF c.month = 12 THEN c.year + 1 ELSE c.year
        nm == IF c.month = 12 THEN 1 ELSE c.month + 1
    IN  IF c.day < DaysInMonth(c.year, c.month)
        THEN AddDays(ts, DaysInMonth(c.year, c.month) - c.day)
        ELSE AddDays(ts, DaysInMonth(ny, nm))

RECURSIVE MonthEnds(_, _)
MonthEnds(ts, h) ==
    IF h = 0 THEN <<>> ELSE <<NextMonthEnd(ts)>> \o MonthEnds(NextMonthEnd(ts), h - 1)

\* make_future_dataframe(periods=h, freq=...): the h periods after the
\* last historical timestamp: days, Sundays ('W') or month ends ('M')
ProphetFuture(last, h, f) ==
    IF f = "Daily" THEN [k \in 1 .. h |-> AddDays(last, k)]
    ELSE IF f = "Weekly"
    THEN LET dow == (last \div TicksPerDay) % 7
         IN  [k \in 1 .. h |-> AddDays(last, (7 - dow) + 7 * (k - 1))]
    ELSE MonthEnds(last, h)

RECURSIVE DistinctDs(_)
DistinctDs(t) ==
    IF t = <<>> THEN <<>>
    ELSE LET rest == DistinctDs(Tail(t))
         IN  IF \E i \in DOMAIN rest : rest[i] = Head(t).ds THEN rest
             ELSE <<Head(t).ds>> \o rest

\* lines 547-562 / 594-607
ProphetResult(hist, h, f, p, tag) ==
    LET dates == DistinctDs(hist) \o ProphetFuture(MaxDs(hist), h, f)
        forecast == [k \in DOMAIN dates |->
                        [ds |-> dates[k], yhat |-> Num(p),
                         yhat_lower |-> Num(p - 1), yhat_upper |-> Num(p + 1)]]
    IN  MergeOuter(hist, forecast, tag)

\* What one fit can do.  The linear fit on a series whose rows all fall on
\* one elapsed day is singular: numpy either raises LinAlgError or returns
\* NaN coefficients, depending on the build.  The library fit may raise on
\* any input and always raises on fewer than 2 rows.
FitOutcomes(hist, simple) ==
    IF simple
    THEN (IF FitTrend(hist).ok THEN {[kind |-> "fit"]}
          ELSE {[kind |-> "raise"], [kind |-> "nan"]})
    ELSE {[kind |-> "raise"]}
         \cup (IF Len(hist) < 2 THEN {}
               ELSE {[kind |-> "level", p |-> p] : p \in ProphetLevels})

FitResult(hist, last, h, f, simple, outcome, tag) ==
    IF simple THEN SimpleTrendResult(hist, last, h, FitTrend(hist), tag)
    ELSE ProphetResult(hist, h, f, outcome.p, tag)

-----------------------------------------------------------------------------
(* Combination and evaluation *)

RECURSIVE Concat(_)
Concat(ts) == IF ts = <<>> THEN <<>> ELSE Head(ts) \o Concat(Tail(ts))

\* lines 617-625
CombineResults(forecasts, end) ==
    LET clipped == [i \in DOMAIN Concat(forecasts) |->
                      [Concat(forecasts)[i] EXCEPT
                          !.yhat = ClipLower(@),
                          !.yhat_lower = ClipLower(@),
                          !.yhat_upper = ClipLower(@)]]
    IN  SelectSeq(clipped, LAMBDA r : r.ds <= end)

\* line 725: combined_result.dropna(subset=['y', 'yhat'])
Overlap(t) == SelectSeq(t, LAMBDA r : ~IsNaN(r.y) /\ ~IsNaN(r.yhat))

Column(t, f) == [i \in DOMAIN t |-> t[i][f]]

\* lines 735-737 / 755-757.  The run is modelled where scikit-learn is not
\* installed (SKLEARN_AVAILABLE = False, line 17), so RMSE and R2 come from
\* simple_rmse and simple_r2.
MetricsOf(t, name) ==
    [Item |-> name,
     MAPE |-> mean_absolute_percentage_error(Column(t, "y"), Column(t, "yhat")),
     RMSE |-> simple_rmse(Column(t, "y"), Column(t, "yhat")),
     R2   |-> simple_r2(Column(t, "y"), Column(t, "yhat"))]

\* lines 730-757: one entry per selected item that has overlap rows, or
\* one entry for the whole table
RECURSIVE ItemMetrics(_, _)
ItemMetrics(t, sel) ==
    IF sel = <<>> THEN <<>>
    ELSE (IF ItemData(t, Head(sel)) # <<>>
          THEN <<MetricsOf(ItemData(t, Head(sel)), Head(sel))>> ELSE <<>>)
         \o ItemMetrics(t, Tail(sel))

Grouped(col, sel) == col # "No filter" /\ sel # <<>>

ComputeMetrics(t, col, sel) ==
    IF Overlap(t) = <<>> THEN <<>>
    ELSE IF Grouped(col, sel) THEN ItemMetrics(Overlap(t), sel)
    ELSE <<MetricsOf(Overlap(t), NoColumn)>>

-----------------------------------------------------------------------------
(* The script run of the forecasting tab *)

Msg(kind, it) == [kind |-> kind, item |-> it]

Say(kind) == Msg(kind, "")

ItemColumn == "Product"

NoScores == [computed |-> FALSE]

runVars == <<PROPHET_AVAILABLE, df, uploaded_data, item_col,
             selected_items, method, item_idx, all_forecasts, combined_result,
             metrics, ui>>

evalVars == <<y_true, y_pred, scores>>

navVars == <<selected_nav, nav, clicked, page, reruns>>

\* line 846 (labels without their emoji)
nav_options ==
    <<"Home", "Profile", "Experience", "Dashboards", "Forecasting", "Projects",
      "Skills", "Contact">>

\* st.session_state has no key "nav"
NavUnset == "unset"

NoButton == "none"

\* the sidebar radio is on "Forecasting" and forecasting_app() is what the
\* script run renders (lines 1289-1290)
OnForecastingPage ==
    /\ selected_nav = "Forecasting"
    /\ nav = NavUnset
    /\ clicked = NoButton
    /\ page = "Forecasting"
    /\ reruns = 0

Init ==
    /\ PROPHET_AVAILABLE \in BOOLEAN
    /\ pc = "start"
    /\ df = <<>>
    /\ uploaded_data = [set |-> FALSE, data |-> <<>>]
    /\ item_col = "No filter"
    /\ selected_items = <<>>
    /\ method = ""
    /\ freq = ""
    /\ forecast_end_date = NaT
    /\ last_date = NaT
    /\ horizon = 0
    /\ item_idx = 0
    /\ all_forecasts = <<>>
    /\ combined_result = <<>>
    /\ metrics = <<>>
    /\ ui = <<>>
    /\ y_true = <<>>
    /\ y_pred = <<>>
    /\ scores = NoScores
    /\ OnForecastingPage

\* lines 385-401, 413, 819-820: a file is uploaded and read.  (The run
\* without a file, on the built-in sample table, is not modelled.)
Upload ==
    /\ pc = "start"
    /\ \E readable \in BOOLEAN, data \in Datasets :
        IF ~readable
        THEN /\ data = <<>>
             /\ ui' = ui \o <<Say("error: reading file")>>
             /\ pc' = "stopped"
             /\ UNCHANGED <<df, uploaded_data>>
        ELSE /\ df' = data
             /\ uploaded_data' = [set |-> TRUE, data |-> data]
             /\ ui' = ui \o <<Say("data loaded"), Say("data preview")>>
                        \o (IF data = <<>> THEN <<Say("info: please upload")>> ELSE <<>>)
             /\ pc' = IF data = <<>> THEN "idle" ELSE "configure"
    /\ UNCHANGED <<PROPHET_AVAILABLE, item_col, selected_items,
                   method, freq, forecast_end_date, last_date, horizon, item_idx,
                   all_forecasts, combined_result, metrics>>
    /\ UNCHANGED evalVars
    /\ UNCHANGED navVars

\* lines 416-438: the column and item widgets
Configure ==
    /\ pc = "configure"
    /\ \E col \in {"No filter", ItemColumn} :
       \E sel \in (IF col = "No filter" THEN {<<>>}
                   ELSE SelectionsOf({r.item : r \in Range(df)})) :
        /\ item_col' = col
        /\ selected_items' = sel
        /\ ui' = ui \o (IF col # "No filter" THEN <<Say("info: items selected")>> ELSE <<>>)
    /\ pc' = "prepare"
    /\ UNCHANGED <<PROPHET_AVAILABLE, df, uploaded_data, method,
                   freq, forecast_end_date, last_date, horizon, item_idx,
                   all_forecasts, combined_result, metrics>>
    /\ UNCHANGED evalVars
    /\ UNCHANGED navVars

\* lines 440-459; line 471 onwards cannot run with last_date = NaT
Prepare ==
    /\ pc = "prepare"
    /\ IF \E r \in Range(df) : ~Parseable(r.date)
       THEN /\ ui' = ui \o <<Say("error: preparing data")>>
            /\ pc' = "stopped"
            /\ UNCHANGED <<df, last_date>>
       ELSE /\ df' = PrepareData(df, item_col, selected_items)
            /\ last_date' = MaxDs(df')
            /\ ui' = ui \o <<IF selected_items # <<>> THEN Say("filtered data")
                             ELSE Say("info: using all data")>>
            /\ pc' = IF last_date' = NaT THEN "crashed" ELSE "settings"
    /\ UNCHANGED <<PROPHET_AVAILABLE, uploaded_data, item_col,
                   selected_items, method, freq, forecast_end_date, horizon,
                   item_idx, all_forecasts, combined_result, metrics>>
    /\ UNCHANGED evalVars
    /\ UNCHANGED navVars

\* st.date_input(min_value=last_date + 1 day): a date, so the time of day
\* of last_date is dropped
EndDates(last) == {AddDays(DateOf(AddDays(last, 1)), k) : k \in 0 .. (MaxAhead - 1)}

\* lines 463-486: method, end date and frequency widgets
Settings ==
    /\ pc = "settings"
    /\ \E m \in Methods, e \in EndDates(last_date), f \in Frequencies :
        /\ method' = m
        /\ forecast_end_date' = e
        /\ freq' = f
    /\ pc' = "ready"
    /\ UNCHANGED <<PROPHET_AVAILABLE, df, uploaded_data, item_col,
                   selected_items, last_date, horizon, item_idx, all_forecasts,
                   combined_result, metrics, ui>>
    /\ UNCHANGED evalVars
    /\ UNCHANGED navVars

\* lines 488-509: the click on "Generate Forecast"
Generate ==
    /\ pc = "ready"
    /\ last_date' = MaxDs(df)
    /\ horizon' = HorizonOf(freq, MaxDs(df), forecast_end_date)
    /\ all_forecasts' = <<>>
    /\ item_idx' = 1
    /\ pc' = IF Grouped(item_col, selected_items) THEN "loop" ELSE "single"
    /\ UNCHANGED <<PROPHET_AVAILABLE, df, uploaded_data, item_col,
                   selected_items, method, freq, forecast_end_date,
                   combined_result, metrics, ui>>
    /\ UNCHANGED evalVars
    /\ UNCHANGED navVars

\* lines 511-566: one pass of the per-item loop; an exception leaves the
\* loop for the handler at lines 816-817
ForecastItem ==
    /\ pc = "loop"
    /\ LET item      == selected_items[item_idx]
           item_data == ItemData(df, item)
           simple    == UseSimpleTrend(PROPHET_AVAILABLE, method)
           announce  == <<Msg("forecasting for", item)>>
           next_pc   == IF item_idx = Len(selected_items) THEN "combine" ELSE "loop"
       IN  IF Len(item_data) < 2
           THEN /\ ui' = ui \o announce \o <<Msg("warning: not enough data", item)>>
                /\ pc' = next_pc
                /\ item_idx' = item_idx + 1
                /\ UNCHANGED all_forecasts
           ELSE \E outcome \in FitOutcomes(item_data, simple) :
                IF outcome.kind = "raise"
                THEN /\ ui' = ui \o announce \o <<Say("error: forecast failed")>>
                     /\ pc' = "failed"
                     /\ UNCHANGED <<item_idx, all_forecasts>>
                ELSE /\ all_forecasts' = Append(all_forecasts,
                            FitResult(item_data, last_date, horizon, freq, simple,
                                      outcome, item))
                     /\ ui' = ui \o announce
                     /\ pc' = next_pc
                     /\ item_idx' = item_idx + 1
    /\ UNCHANGED <<PROPHET_AVAILABLE, df, uploaded_data, item_col,
                   selected_items, method, freq, forecast_end_date, last_date,
                   horizon, combined_result, metrics>>
    /\ UNCHANGED evalVars
    /\ UNCHANGED navVars

\* ForecastSingle with an exception of the library path answered by the
\* linear path instead of the handler at lines 816-817
ForecastSingle_fallback ==
    /\ pc = "single"
    /\ LET simple == UseSimpleTrend(PROPHET_AVAILABLE, method)
           tag    == IF item_col # "No filter" THEN "All Items" ELSE NoColumn
           series == [i \in DOMAIN df |-> [ds |-> df[i].ds, y |-> df[i].y]]
       IN  \E outcome \in FitOutcomes(series, simple) :
            IF outcome.kind = "raise" /\ simple
            THEN /\ ui' = ui \o <<Say("error: forecast failed")>>
                 /\ pc' = "failed"
                 /\ UNCHANGED all_forecasts
            ELSE /\ all_forecasts' = Append(all_forecasts,
                        FitResult(series, last_date, horizon, freq,
                                  simple \/ outcome.kind = "raise", outcome, tag))
                 /\ pc' = "combine"
                 /\ UNCHANGED ui
    /\ UNCHANGED <<PROPHET_AVAILABLE, df, uploaded_data, item_col,
                   selected_items, method, freq, forecast_end_date, last_date,
                   horizon, item_idx, combined_result, metrics>>
    /\ UNCHANGED evalVars
    /\ UNCHANGED navVars

\* lines 568-610: the whole table as one series
ForecastSingle ==
    /\ pc = "single"
    /\ LET simple == UseSimpleTrend(PROPHET_AVAILABLE, method)
           tag    == IF item_col # "No filter" THEN "All Items" ELSE NoColumn
           series == [i \in DOMAIN df |-> [ds |-> df[i].ds, y |-> df[i].y]]
       IN  \E outcome \in FitOutcomes(series, simple) :
            IF outcome.kind = "raise"
            THEN /\ ui' = ui \o <<Say("error: forecast failed")>>
                 /\ pc' = "failed"
                 /\ UNCHANGED all_forecasts
            ELSE /\ all_forecasts' = Append(all_forecasts,
                        FitResult(series, last_date, horizon, freq, simple, outcome, tag))
                 /\ pc' = "combine"
                 /\ UNCHANGED ui
    /\ UNCHANGED <<PROPHET_AVAILABLE, df, uploaded_data, item_col,
                   selected_items, method, freq, forecast_end_date, last_date,
                   horizon, item_idx, combined_result, metrics>>
    /\ UNCHANGED evalVars
    /\ UNCHANGED navVars

\* Combine with st.stop() caught by the handler at lines 816-817
Combine_caught ==
    /\ pc = "combine"
    /\ IF all_forecasts = <<>>
       THEN /\ ui' = ui \o <<Say("error: no forecasts generated"),
                              Say("error: forecast failed")>>
            /\ pc' = "failed"
            /\ UNCHANGED combined_result
       ELSE /\ combined_result' = CombineResults(all_forecasts, forecast_end_date)
            /\ ui' = ui \o <<Say("forecast preview"), Say("chart")>>
            /\ pc' = "evaluate"
    /\ UNCHANGED <<PROPHET_AVAILABLE, df, uploaded_data, item_col,
                   selected_items, method, freq, forecast_end_date, last_date,
                   horizon, item_idx, all_forecasts, metrics>>
    /\ UNCHANGED evalVars
    /\ UNCHANGED navVars

\* lines 612-721: st.stop() when nothing was forecast; else concat, clip,
\* end-date filter, preview and chart
Combine ==
    /\ pc = "combine"
    /\ IF all_forecasts = <<>>
       THEN /\ ui' = ui \o <<Say("error: no forecasts generated")>>
            /\ pc' = "stopped"
            /\ UNCHANGED combined_result
       ELSE /\ combined_result' = CombineResults(all_forecasts, forecast_end_date)
            /\ ui' = ui \o <<Say("forecast preview"), Say("chart")>>
            /\ pc' = "evaluate"
    /\ UNCHANGED <<PROPHET_AVAILABLE, df, uploaded_data, item_col,
                   selected_items, method, freq, forecast_end_date, last_date,
                   horizon, item_idx, all_forecasts, metrics>>
    /\ UNCHANGED evalVars
    /\ UNCHANGED navVars

\* lines 723-814: accuracy metrics over the overlap rows, export, success
Evaluate ==
    /\ pc = "evaluate"
    /\ metrics' = ComputeMetrics(combined_result, item_col, selected_items)
    /\ ui' = ui \o (IF Overlap(combined_result) # <<>> THEN <<Say("accuracy metrics")>>
                    ELSE <<>>)
               \o <<Say("download button"), Say("success")>>
    /\ pc' = "done"
    /\ UNCHANGED <<PROPHET_AVAILABLE, df, uploaded_data, item_col,
                   selected_items, method, freq, forecast_end_date, last_date,
                   horizon, item_idx, all_forecasts, combined_result>>
    /\ UNCHANGED evalVars
    /\ UNCHANGED navVars

Next ==
    \/ Upload
    \/ Configure
    \/ Prepare
    \/ Settings
    \/ Generate
    \/ ForecastItem
    \/ ForecastSingle
    \/ Combine
    \/ Evaluate

Spec == Init /\ [][Next]_vars

-----------------------------------------------------------------------------
(* The horizon conversion on its own: lines 474-504 over a wide range of   *)
(* dates                                                                   *)

HorizonLastDates == {Timestamp(2023, 12, 1, 0) + k : k \in 0 .. (LastSpan * TicksPerDay - 1)}

HorizonEndDates(last) ==
    {AddDays(DateOf(AddDays(last, 1)), k) : k \in 0 .. (HorizonSpan - 1)}

InitHorizon ==
    /\ PROPHET_AVAILABLE = FALSE
    /\ pc = "horizon: start"
    /\ df = <<>>
    /\ uploaded_data = [set |-> FALSE, data |-> <<>>]
    /\ item_col = "No filter"
    /\ selected_items = <<>>
    /\ method = ""
    /\ freq \in Frequencies
    /\ last_date \in HorizonLastDates
    /\ forecast_end_date \in HorizonEndDates(last_date)
    /\ horizon = 0
    /\ item_idx = 0
    /\ all_forecasts = <<>>
    /\ combined_result = <<>>
    /\ metrics = <<>>
    /\ ui = <<>>
    /\ y_true = <<>>
    /\ y_pred = <<>>
    /\ scores = NoScores
    /\ OnForecastingPage

ComputeHorizon ==
    /\ pc = "horizon: start"
    /\ horizon' = HorizonOf(freq, last_date, forecast_end_date)
    /\ pc' = "horizon: done"
    /\ UNCHANGED <<freq, forecast_end_date, last_date>>
    /\ UNCHANGED runVars
    /\ UNCHANGED evalVars
    /\ UNCHANGED navVars

SpecHorizon == InitHorizon /\ [][ComputeHorizon]_vars

-----------------------------------------------------------------------------
(* The accuracy functions on their own: lines 316-348 over all short       *)
(* sequences                                                               *)

EvalObserved == {Num(k) : k \in (0 - MaxEvalVal) .. MaxEvalVal} \cup {Frac(1, 2)}

EvalEstimates == {Num(k) : k \in 0 .. MaxEvalVal} \cup {Frac(1, 2)}

InitEval ==
    /\ PROPHET_AVAILABLE = FALSE
    /\ pc = "eval: start"
    /\ df = <<>>
    /\ uploaded_data = [set |-> FALSE, data |-> <<>>]
    /\ item_col = "No filter"
    /\ selected_items = <<>>
    /\ method = ""
    /\ freq = ""
    /\ last_date = NaT
    /\ forecast_end_date = NaT
    /\ horizon = 0
    /\ item_idx = 0
    /\ all_forecasts = <<>>
    /\ combined_result = <<>>
    /\ metrics = <<>>
    /\ ui = <<>>
    /\ \E n \in 1 .. MaxEvalLen :
        /\ y_true \in [1 .. n -> EvalObserved]
        /\ y_pred \in [1 .. n -> EvalEstimates]
    /\ scores = NoScores
    /\ OnForecastingPage

EvaluateScores ==
    /\ pc = "eval: start"
    /\ scores' = [computed |-> TRUE,
                  safe_mape |-> safe_mape(y_true, y_pred),
                  mape |-> mean_absolute_percentage_error(y_true, y_pred),
                  rmse |-> simple_rmse(y_true, y_pred),
                  r2 |-> simple_r2(y_true, y_pred)]
    /\ pc' = "eval: done"
    /\ UNCHANGED <<y_true, y_pred>>
    /\ UNCHANGED <<freq, forecast_end_date, last_date, horizon>>
    /\ UNCHANGED runVars
    /\ UNCHANGED navVars

SpecEval == InitEval /\ [][EvaluateScores]_vars

-----------------------------------------------------------------------------
(* The data preparation on its own: lines 440-459 over tables with empty   *)
(* cells, unparseable dates and missing item keys                          *)

\* an empty date cell (NaN in the column)
EmptyCell == [kind |-> "empty", year |-> 0, month |-> 0, day |-> 0, tick |-> 0]

\* a date cell holding text that is no date
BadCell == [kind |-> "bad", year |-> 0, month |-> 0, day |-> 0, tick |-> 0]

RawDateCells == {DateCell(DataStart + k) : k \in 0 .. MaxPrepTick} \cup {EmptyCell, BadCell}

RawRows ==
    {[date |-> c, value |-> v, item |-> g] :
        c \in RawDateCells, v \in {Num(0), NaN}, g \in Items \cup {ItemNA}}

\* tables are enumerated up to the order of their rows: one representative
\* per multiset, listed by item, then value, then date cell
RawKey(r) ==
    LET g == IF r.item = "A" THEN 0 ELSE IF r.item = "B" THEN 1 ELSE 2
        v == IF IsNaN(r.value) THEN 1 ELSE 0
        c == IF r.date.kind = "date" THEN ToDatetime(r.date) - DataStart
             ELSE IF r.date.kind = "empty" THEN MaxPrepTick + 1
             ELSE MaxPrepTick + 2
    IN  (g * 2 + v) * (MaxPrepTick + 3) + c

RawTables ==
    {s \in UNION {[1 .. n -> RawRows] : n \in 1 .. MaxPrepRows} :
        \A i \in 1 .. (Len(s) - 1) : RawKey(s[i]) <= RawKey(s[i + 1])}

\* the state in which line 440 is reached: a table is loaded and the column
\* and item widgets are set
InitPrepare ==
    /\ PROPHET_AVAILABLE = FALSE
    /\ pc = "prepare"
    /\ df \in RawTables
    /\ uploaded_data = [set |-> TRUE, data |-> df]
    /\ item_col \in {"No filter", ItemColumn}
    /\ selected_items \in (IF item_col = "No filter" THEN {<<>>}
                           ELSE SelectionsOf({r.item : r \in Range(df)}))
    /\ method = ""
    /\ freq = ""
    /\ forecast_end_date = NaT
    /\ last_date = NaT
    /\ horizon = 0
    /\ item_idx = 0
    /\ all_forecasts = <<>>
    /\ combined_result = <<>>
    /\ metrics = <<>>
    /\ ui = <<Say("data loaded"), Say("data preview")>>
                \o (IF item_col # "No filter" THEN <<Say("info: items selected")>> ELSE <<>>)
    /\ y_true = <<>>
    /\ y_pred = <<>>
    /\ scores = NoScores
    /\ OnForecastingPage

SpecPrepare == InitPrepare /\ [][Prepare]_vars

-----------------------------------------------------------------------------
(* The page navigation: the sidebar radio (lines 844-847), the section     *)
(* dispatch (lines 894-1471) and the Home page's quick-action buttons      *)
(* (lines 942-952), one action per script run                              *)

\* the quick-action buttons and the value each writes, lines 945-952
QuickActions ==
    [b \in {"View Dashboards", "Forecasting Demo", "Contact Me"} |->
        CASE b = "View Dashboards" -> "Dashboards"
          [] b = "Forecasting Demo" -> "Forecasting"
          [] b = "Contact Me" -> "Contact"]

\* `label in selected_nav` is a substring test; no label of nav_options is
\* part of another, so on the radio's values it holds for the label itself
LabelIn(label, selected) == label = selected

\* a dispatch that follows st.session_state.nav once it is set
Section_nav_first(selected, navstate) ==
    IF navstate # NavUnset THEN navstate ELSE selected

\* the if/elif chain of lines 894, 1025, 1120, 1289, 1292, 1345, 1399, 1471
Section(selected, navstate) ==
    CASE LabelIn("Home", selected) -> "Home"
      [] LabelIn("Profile", selected) -> "Profile"
      [] LabelIn("Dashboards", selected) -> "Dashboards"
      [] LabelIn("Forecasting", selected) -> "Forecasting"
      [] LabelIn("Projects", selected) -> "Projects"
      [] LabelIn("Skills", selected) -> "Skills"
      [] LabelIn("Experience", selected) -> "Experience"
      [] LabelIn("Contact", selected) -> "Contact"
      [] OTHER -> "nothing"

\* the session opens: the radio is on its first option and the script has
\* run once
InitNav ==
    /\ PROPHET_AVAILABLE = FALSE
    /\ pc = "nav"
    /\ df = <<>>
    /\ uploaded_data = [set |-> FALSE, data |-> <<>>]
    /\ item_col = "No filter"
    /\ selected_items = <<>>
    /\ method = ""
    /\ freq = ""
    /\ forecast_end_date = NaT
    /\ last_date = NaT
    /\ horizon = 0
    /\ item_idx = 0
    /\ all_forecasts = <<>>
    /\ combined_result = <<>>
    /\ metrics = <<>>
    /\ ui = <<>>
    /\ y_true = <<>>
    /\ y_pred = <<>>
    /\ scores = NoScores
    /\ selected_nav = nav_options[1]
    /\ nav = NavUnset
    /\ clicked = NoButton
    /\ page = Section(selected_nav, nav)
    /\ reruns = 0

\* line 847, then the dispatch: the user picks another radio option and the
\* script reruns
SelectNav ==
    /\ pc = "nav"
    /\ reruns < MaxReruns
    /\ \E o \in Range(nav_options) :
        /\ o # selected_nav
        /\ selected_nav' = o
        /\ page' = Section(o, nav)
    /\ clicked' = NoButton
    /\ reruns' = reruns + 1
    /\ UNCHANGED <<nav, pc, freq, forecast_end_date, last_date, horizon>>
    /\ UNCHANGED runVars
    /\ UNCHANGED evalVars

\* lines 945-952: a quick-action button of the rendered Home section is
\* clicked; the script reruns with the radio as it was, the dispatch runs
\* (line 894) and the button's branch then writes st.session_state.nav
QuickAction ==
    /\ pc = "nav"
    /\ reruns < MaxReruns
    /\ page = "Home"
    /\ \E b \in DOMAIN QuickActions :
        /\ clicked' = b
        /\ page' = Section(selected_nav, nav)
        /\ nav' = IF page' = "Home" THEN QuickActions[b] ELSE nav
    /\ reruns' = reruns + 1
    /\ UNCHANGED <<selected_nav, pc, freq, forecast_end_date, last_date, horizon>>
    /\ UNCHANGED runVars
    /\ UNCHANGED evalVars

NextNav == SelectNav \/ QuickAction

SpecNav == InitNav /\ [][NextNav]_vars

-----------------------------------------------------------------------------
(* Properties *)

Card(S) == Cardinality(S)

\* the run took the linear path
SimpleRun == UseSimpleTrend(PROPHET_AVAILABLE, method)

\* the historical rows of one per-series result
History(f) == SelectSeq(f, LAMBDA r : ~IsNaN(r.y))

\* the rows of the final table that belong to the series tagged tag
FinalRows(tag) == SelectSeq(combined_result, LAMBDA r : r.item = tag)

\* C1 (as claimed): when a run on the linear path finishes, every series with
\* at least 2 rows has exactly `horizon` rows after the last observed date
\* in the final table (after clamping and the end-date filter).
C1_ExactlyHorizonFutureRows ==
    (pc = "done" /\ SimpleRun) =>
        \A f \in Range(all_forecasts) :
            Len(History(f)) >= 2 =>
                Card({i \in DOMAIN FinalRows(f[1].item) :
                        FinalRows(f[1].item)[i].ds > last_date}) = horizon

\* C2: every row of the final table that carries an estimate has
\* 0 <= lower bound <= point estimate <= upper bound.
C2_BandOrderedNonNegative ==
    \A r \in Range(combined_result) :
        ~IsNaN(r.yhat) =>
            /\ FLe(Num(0), r.yhat_lower)
            /\ FLe(r.yhat_lower, r.yhat)
            /\ FLe(r.yhat, r.yhat_upper)

\* C2 witness: a finished linear run whose raw extrapolation was negative,
\* with the raw band inverted (0.9x above 1.1x), and the row is in the
\* final table.
C2_NegativeExtrapolationClamped ==
    /\ pc = "done"
    /\ SimpleRun
    /\ \E f \in Range(all_forecasts) : \E r \in Range(f) :
        /\ FLt(r.yhat, Num(0))
        /\ FLt(r.yhat_upper, r.yhat_lower)
        /\ \E c \in Range(combined_result) :
            c.ds = r.ds /\ c.item = r.item /\ c.yhat = Num(0)

\* the rows of hist satisfy y = a + b * (elapsed days since the first row)
LinearIn(hist, a, b) ==
    \A r \in Range(hist) : r.y = Num(a + b * DeltaDays(r.ds, MinDs(hist)))

\* the rows of hist fall on at least two different elapsed days
SpansTwoDays(hist) ==
    \E r \in Range(hist) : DeltaDays(r.ds, MinDs(hist)) > 0

\* the future rows of series f in the final table carry a + b * elapsed days
\* with the band 0.9x .. 1.1x, wherever that value is not negative
ExtrapolatesLine(f, a, b) ==
    \A r \in Range(FinalRows(f[1].item)) :
        LET x == a + b * DeltaDays(r.ds, MinDs(History(f)))
        IN  (IsNaN(r.y) /\ x >= 0) =>
                /\ r.yhat = Num(x)
                /\ r.yhat_lower = Frac(9 * x, 10)
                /\ r.yhat_upper = Frac(11 * x, 10)

Slopes == (0 - MaxVal) .. MaxVal

C4_HistoricalRowsCarryEstimate ==
    pc = "done" =>
        \A r \in Range(combined_result) : ~IsNaN(r.y) => ~IsNaN(r.yhat)

\* the overlap rows a metrics entry was computed from
MetricRows(m) ==
    IF Grouped(item_col, selected_items) THEN ItemData(Overlap(combined_result), m.Item)
    ELSE Overlap(combined_result)

\* C5 (as claimed): the MAPE the tab reports is the mean of
\* |observed - estimate| / max(|observed|, eps) times 100.
C5_ReportedMapeUsesEpsilonFloor ==
    pc = "done" =>
        \A m \in Range(metrics) :
            [big |-> Num(0), fin |-> m.MAPE]
                = safe_mape(Column(MetricRows(m), "y"), Column(MetricRows(m), "yhat"))

\* every estimate equals its observed value
Perfect == \A i \in DOMAIN y_true : y_true[i] = y_pred[i]

\* all observed values are identical (SS_tot = 0)
ConstantObserved == \A i, j \in DOMAIN y_true : y_true[i] = y_true[j]

C8_MetricRanges ==
    scores.computed =>
        /\ FLe(Num(0), scores.mape)
        /\ FLe(Num(0), scores.safe_mape.big)
        /\ FLe(Num(0), scores.safe_mape.fin)
        /\ FLe(Num(0), scores.rmse)
        /\ FLe(scores.r2, Num(1))

\* C8 witness: an imperfect fit with an observed zero: positive MAPE (with
\* a term over eps), positive RMSE, negative R2.
C8_ImperfectFitScored ==
    /\ scores.computed
    /\ FLt(Num(0), scores.mape)
    /\ FLt(Num(0), scores.safe_mape.big)
    /\ FLt(Num(0), scores.rmse)
    /\ FLt(scores.r2, Num(0))

\* C9 (as claimed): with frequency Weekly and a last observation at 00:00,
\* D days before the end date, the horizon is max(1, D // 7).
C9_WeeklyHorizonIsDaysDiv7 ==
    (pc = "horizon: done" /\ freq = "Weekly" /\ last_date = DateOf(last_date)) =>
        horizon = Max(1, DeltaDays(forecast_end_date, last_date) \div 7)

\* the timestamp ts lies in month m of year y
InMonth(ts, y, m) ==
    /\ DaysBeforeMonth(y, m) <= ts \div TicksPerDay
    /\ ts \div TicksPerDay < DaysBeforeMonth(y, m) + DaysInMonth(y, m)

Years == 2023 .. 2025

\* C10: with frequency Monthly the horizon is
\* max(1, (end.year - start.year) * 12 + (end.month - start.month)), the
\* same as for the first days of the two months.
C10_MonthlyHorizonIsMonthDiff ==
    (pc = "horizon: done" /\ freq = "Monthly") =>
        \A y1 \in Years, m1 \in 1 .. 12 :
            InMonth(last_date, y1, m1) =>
                \A y2 \in Years, m2 \in 1 .. 12 :
                    InMonth(forecast_end_date, y2, m2) =>
                        /\ horizon = Max(1, (y2 - y1) * 12 + (m2 - m1))
                        /\ horizon = HorizonOf("Monthly", Timestamp(y1, m1, 1, 0),
                                               Timestamp(y2, m2, 1, 0))

\* C10 witness: 2024-01-01 to 2024-04-01 gives 3.
C10_JanuaryToApril ==
    /\ pc = "horizon: done"
    /\ freq = "Monthly"
    /\ last_date = Timestamp(2024, 1, 1, 0)
    /\ forecast_end_date = Timestamp(2024, 4, 1, 0)
    /\ horizon = 3

\* C11 (as claimed): for every frequency the horizon is an integer >= 1, and
\* with frequency Daily it is the number of days from the date of the last
\* observation to the end date.
C11_HorizonPositiveDailyExact ==
    pc = "horizon: done" =>
        /\ horizon \in Nat
        /\ horizon >= 1
        /\ freq = "Daily" =>
                horizon = DeltaDays(forecast_end_date, DateOf(last_date))

\* the run has ended: rendered to the end, failed in the handler of lines
\* 816-817, or halted by st.stop()
Ended == pc \in {"done", "failed", "stopped"}

\* the run entered the per-item loop
GroupedRun == Grouped(item_col, selected_items)

\* the rows the prepared table holds for one item
RowsOf(it) == ItemData(df, it)

\* the "Not enough data ... Skipping." warning was shown for the item
Warned(it) == Msg("warning: not enough data", it) \in Range(ui)

\* C12 (as claimed): at the end of a multi-item run that selects an item
\* with fewer than 2 rows, every selected item with fewer than 2 rows was
\* skipped with a warning, and every selected item with at least 2 rows has
\* its rows in the final table, whatever the order of the selection.
C12_ShortItemsSkippedOthersForecast ==
    (Ended /\ GroupedRun /\ \E it \in Range(selected_items) : Len(RowsOf(it)) < 2) =>
        \A it \in Range(selected_items) :
            IF Len(RowsOf(it)) < 2
            THEN Warned(it) /\ FinalRows(it) = <<>>
            ELSE ~Warned(it) /\ FinalRows(it) # <<>>

\* C14 (as claimed): a multi-item run never ends in the failure handler;
\* at its end every selected item either has its rows in the final table
\* or was skipped with a warning.
C14_FitErrorSkipsOnlyThatItem ==
    (Ended /\ GroupedRun) =>
        /\ pc # "failed"
        /\ \A it \in Range(selected_items) : Warned(it) \/ FinalRows(it) # <<>>

\* the "Forecast failed" message of the handler at lines 816-817
FitFailed == Say("error: forecast failed") \in Range(ui)

\* C15 (as claimed): a series with fewer than 2 rows never reaches a fit: on
\* the ungrouped path, once the forecasting step is over, such a table has
\* produced no result and no fit error, only an insufficient-data report.
C15_NoFitBelowTwoRows ==
    (~GroupedRun /\ pc \in {"combine", "evaluate", "done", "failed"} /\ Len(df) < 2) =>
        /\ all_forecasts = <<>>
        /\ ~FitFailed
        /\ \E m \in Range(ui) : m.kind = "warning: not enough data"

\* the tables a second run could have prepared for the other items while
\* the rows of item it stay as they are: the rows of it together with 1 or
\* more rows of other items, MaxRows rows at most
OtherRows(it) ==
    {[ds |-> DataStart + k, y |-> Num(v), item |-> g] :
        k \in 0 .. MaxTick, v \in 0 .. MaxVal, g \in Items \ {it}}

TablesVarying(it) ==
    {SortByDs(RowsOf(it) \o other) :
        other \in UNION {[1 .. n -> OtherRows(it)] : n \in 1 .. (MaxRows - Len(RowsOf(it)))}}

\* the end date of this run can be picked in a run on table as well
\* (st.date_input, min_value = last_date + 1 day)
EndDateAdmissible(table) == DateOf(AddDays(MaxDs(table), 1)) <= forecast_end_date

\* the rows item it gets in the final table of a run on table with the
\* settings of this run, when its fit ends as outcome
ReplayItem(table, it, outcome) ==
    CombineResults(
        <<FitResult(ItemData(table, it), MaxDs(table),
                    HorizonOf(freq, MaxDs(table), forecast_end_date), freq,
                    SimpleRun, outcome, it)>>,
        forecast_end_date)

\* C13 (as claimed): when a run that selects both items finishes, the rows
\* of an item in the final table (future timestamps, estimates, bounds) are
\* the ones it gets in any run with the same settings that differs only in
\* the rows of the other item.
C13_ItemResultIndependentOfOtherItems ==
    (pc = "done" /\ GroupedRun /\ Range(selected_items) = Items) =>
        \A it \in Items :
            Len(RowsOf(it)) >= 2 =>
                \A table \in TablesVarying(it) :
                    EndDateAdmissible(table) =>
                        \E outcome \in FitOutcomes(RowsOf(it), SimpleRun) :
                            /\ outcome.kind # "raise"
                            /\ ReplayItem(table, it, outcome) = FinalRows(it)

\* the table as it was uploaded
Raw == uploaded_data.data

\* the preparation step of this run is over
Prepared == pc \in {"settings", "crashed", "stopped"}

PrepareFailed == Say("error: preparing data") \in Range(ui)

\* the number of rows of table t equal to r
CountOf(t, r) == Cardinality({i \in DOMAIN t : t[i] = r})

\* t and u hold the same rows the same number of times
SameRows(t, u) ==
    /\ Len(t) = Len(u)
    /\ \A r \in Range(t) \cup Range(u) : CountOf(t, r) = CountOf(u, r)

\* C16 (as claimed): when the date column holds text that is no date in
\* some rows and a date in others, preparation reports no error, does not
\* stop, and leaves what it leaves for the table without those rows.
C16_UnparseableRowsExcluded ==
    (/\ Prepared
     /\ \E r \in Range(Raw) : ~Parseable(r.date)
     /\ \E r \in Range(Raw) : r.date.kind = "date") =>
        /\ ~PrepareFailed
        /\ pc # "stopped"
        /\ df = PrepareData(SelectSeq(Raw, LAMBDA r : Parseable(r.date)),
                            item_col, selected_items)

\* the uploaded row r in the columns the prepared table keeps
Canonical(r) ==
    [ds |-> ToDatetime(r.date), y |-> r.value,
     item |-> IF item_col # "No filter" THEN r.item ELSE NoColumn]

\* the uploaded row r lies within the selected items
InSelection(r) == selected_items = <<>> \/ r.item \in Range(selected_items)

\* the uploaded rows within the selection that have a timestamp and a value
ValidRows ==
    LET kept == SelectSeq(Raw, LAMBDA r :
                    InSelection(r) /\ ToDatetime(r.date) # NaT /\ ~IsNaN(r.value))
    IN  [i \in DOMAIN kept |-> Canonical(kept[i])]

\* C18 (as claimed): after a preparation that did not stop, every row has a
\* timestamp and a value, the rows are in non-decreasing timestamp order,
\* and the rows are exactly the uploaded rows within the selected items that
\* have both a timestamp and a value.
C18_PreparedRowsValidSortedComplete ==
    (Prepared /\ pc # "stopped") =>
        /\ \A r \in Range(df) : r.ds # NaT /\ ~IsNaN(r.y)
        /\ \A i \in 1 .. (Len(df) - 1) : df[i].ds <= df[i + 1].ds
        /\ SameRows(df, ValidRows)

\* the (timestamp, value) pairs of a table
Pairs(t) == [i \in DOMAIN t |-> [ds |-> t[i].ds, y |-> t[i].y]]

\* the item values present in the prepared table
ItemsPresent == {r.item : r \in Range(df)}

\* C17 (as claimed): when an item column is chosen and the run finishes,
\* with or without an explicit selection, every fitted series holds the
\* rows of exactly one item value of the table, and every item value with
\* at least 2 rows has exactly one series.
C17_OneSeriesPerItemNeverPooled ==
    (pc = "done" /\ item_col # "No filter") =>
        /\ \A f \in Range(all_forecasts) :
                \E g \in ItemsPresent : SameRows(Pairs(History(f)), Pairs(RowsOf(g)))
        /\ \A g \in ItemsPresent :
                Len(RowsOf(g)) >= 2 =>
                    Card({i \in DOMAIN all_forecasts :
                            SameRows(Pairs(History(all_forecasts[i])), Pairs(RowsOf(g)))}) = 1

\* the valid uploaded rows of the series tagged tag, as (timestamp, value)
\* pairs; a row is valid when none of the columns kept is missing
InputSeries(tag) ==
    LET mine == IF GroupedRun THEN SelectSeq(Raw, LAMBDA r : r.item = tag) ELSE Raw
        rows == SelectSeq(mine, LAMBDA r : ~HasNA(Canonical(r), item_col))
    IN  SortByDs([i \in DOMAIN rows |-> [ds |-> ToDatetime(rows[i].date), y |-> rows[i].value]])

\* C19: when a run finishes, the rows with an observed value that a series
\* has in the final table are its uploaded rows, each exactly once
\* (duplicate timestamps included), and on the linear path the estimates of
\* its future rows lie on the least-squares line through all of them.
C19_DuplicatesRetained ==
    pc = "done" =>
        \A f \in Range(all_forecasts) :
            LET tag   == f[1].item
                input == InputSeries(tag)
            IN  /\ SameRows(Pairs(History(FinalRows(tag))), input)
                /\ SimpleRun =>
                        \A r \in Range(FinalRows(tag)) :
                            IsNaN(r.y) =>
                                r.yhat = ClipLower(TrendAt(FitTrend(input),
                                                DeltaDays(r.ds, MinDs(input))))

\* C19 witness: a finished linear run on the rows (day 0, 0), (day 0, 1),
\* (day 1, 1): both rows of day 0 are in the final table and the estimate
\* for day 2 is 1.5, the line through all three rows (2 without the
\* duplicate).
C19_DuplicateDayFitted ==
    /\ pc = "done"
    /\ SimpleRun
    /\ Pairs(History(combined_result))
          = <<[ds |-> DataStart, y |-> Num(0)], [ds |-> DataStart, y |-> Num(1)],
              [ds |-> AddDays(DataStart, 1), y |-> Num(1)]>>
    /\ \E r \in Range(combined_result) :
          IsNaN(r.y) /\ r.ds = AddDays(DataStart, 2) /\ r.yhat = Frac(3, 2)

\* C20: in every per-series result and in the final table, a row that
\* carries an observed value has a timestamp at or before last_date; every
\* row after last_date has no observed value.
C20_ObservedOnlyUpToLastDate ==
    /\ \A f \in Range(all_forecasts) : \A r \in Range(f) : r.ds > last_date => IsNaN(r.y)
    /\ \A r \in Range(combined_result) : r.ds > last_date => IsNaN(r.y)

\* C20 witness: a finished run whose final table has an observed row at
\* last_date and a row after last_date that carries an estimate and no
\* observed value.
C20_FutureRowWithoutObserved ==
    /\ pc = "done"
    /\ \E r \in Range(combined_result) : r.ds = last_date /\ ~IsNaN(r.y)
    /\ \E r \in Range(combined_result) :
          r.ds > last_date /\ IsNaN(r.y) /\ ~IsNaN(r.yhat)

\* the per-series result f came from the linear path: its observed rows
\* carry no estimate (the library path estimates every historical row)
LinearResult(f) == \E r \in Range(f) : ~IsNaN(r.y) /\ IsNaN(r.yhat)

\* C21 (as claimed): a result comes from the linear path only when the
\* library is absent.
C21_LinearOnlyWhenLibraryAbsent ==
    \A f \in Range(all_forecasts) : LinearResult(f) => ~PROPHET_AVAILABLE

\* C21 (amended): a result comes from the linear path exactly when the
\* library is absent or the method picked is "Simple Trend".
C21_LinearIffAbsentOrPicked ==
    \A f \in Range(all_forecasts) :
        LinearResult(f) <=> (~PROPHET_AVAILABLE \/ method = "Simple Trend")

\* C21 witness: a finished run with the library importable and "Simple
\* Trend" picked holds a linear result.
C21_LinearPickedWithLibrary ==
    /\ pc = "done"
    /\ PROPHET_AVAILABLE
    /\ method = "Simple Trend"
    /\ \E f \in Range(all_forecasts) : LinearResult(f)

\* how often message m was written to the page
Shown(m) == Cardinality({i \in DOMAIN ui : ui[i] = m})

\* the run took the library path
LibraryRun == PROPHET_AVAILABLE /\ method = "Prophet (recommended)"

\* C22: an exception of a fit ends the run in the handler: "Forecast
\* failed" is the last thing written, once, and no table, metrics, download
\* button or success message exists; no item is forecast twice; and a run
\* on the library path never holds a result of the linear path.
C22_FailureEndsRun ==
    /\ pc = "failed" =>
            /\ ui[Len(ui)] = Say("error: forecast failed")
            /\ combined_result = <<>>
            /\ metrics = <<>>
            /\ Shown(Say("download button")) = 0
            /\ Shown(Say("success")) = 0
    /\ FitFailed => pc = "failed"
    /\ Shown(Say("error: forecast failed")) <= 1
    /\ \A it \in Items : Shown(Msg("forecasting for", it)) <= 1
    /\ LibraryRun => \A f \in Range(all_forecasts) : ~LinearResult(f)

\* C22 witness: a per-item run on the library path whose fit of the second
\* item (2 rows or more) raised, after the first item had been skipped.
C22_LibraryFitFailed ==
    /\ pc = "failed"
    /\ LibraryRun
    /\ GroupedRun
    /\ item_idx = 2
    /\ Warned(selected_items[1])
    /\ Len(RowsOf(selected_items[2])) >= 2
    /\ FitFailed

\* the messages that report an input error
InputErrorReports ==
    {"error: reading file", "error: preparing data", "error: no forecasts generated",
     "warning: not enough data"}

\* C23 (as claimed): when a run stops on an input error, the session holds
\* no uploaded table and the page holds nothing but the report of the
\* error (no load confirmation, preview or per-item progress line).
C23_InputErrorLeavesNoState ==
    pc = "stopped" =>
        /\ ~uploaded_data.set
        /\ \A m \in Range(ui) : m.kind \in InputErrorReports

\* the click on "Generate Forecast" has happened (line 504 has set horizon)
Clicked == horizon >= 1

\* the preparation of lines 440-459 has written its message
PreparationShown ==
    \E m \in Range(ui) : m.kind \in {"filtered data", "info: using all data"}

\* C24 (as claimed): the data is prepared only after the click on
\* "Generate Forecast", and the preview table and the chart are on the page
\* only once the accuracy evaluation has been performed.
C24_PrepareAfterClickRenderAfterEvaluate ==
    /\ PreparationShown => Clicked
    /\ (Say("forecast preview") \in Range(ui) \/ Say("chart") \in Range(ui)) => pc = "done"

\* C25: on the linear path no row of a per-series result or of the final
\* table has both an observed value and an estimate, so no metrics are
\* computed and the metrics section is not shown.
C25_NoMetricsOnLinearPath ==
    SimpleRun =>
        /\ \A f \in Range(all_forecasts) : Overlap(f) = <<>>
        /\ Overlap(combined_result) = <<>>
        /\ metrics = <<>>
        /\ Shown(Say("accuracy metrics")) = 0

\* C25 witness: a finished per-item run on the linear path whose final
\* table holds observed rows and a future row with an estimate, and no
\* metrics.
C25_LinearRunWithoutMetrics ==
    /\ pc = "done"
    /\ SimpleRun
    /\ GroupedRun
    /\ \E r \in Range(combined_result) : ~IsNaN(r.y)
    /\ \E r \in Range(combined_result) : IsNaN(r.y) /\ ~IsNaN(r.yhat)
    /\ metrics = <<>>

\* the timestamps of the rows of f that carry no observed value
FutureStamps(f) == Column(SelectSeq(f, LAMBDA r : IsNaN(r.y)), "ds")

\* the number of days from the date of the last observation to the end date
DayCount == DeltaDays(forecast_end_date, DateOf(last_date))

\* C26 (as claimed): on the linear path the future timestamps of every
\* series are last_date + 1 day, ..., last_date + horizon days for every
\* frequency; the last of them is the end date for Daily, and lies before
\* the end date for Weekly and Monthly when horizon is less than the day
\* count.
C26_FutureStampsConsecutiveDays ==
    SimpleRun =>
        \A f \in Range(all_forecasts) :
            /\ FutureStamps(f) = [k \in 1 .. horizon |-> AddDays(last_date, k)]
            /\ freq = "Daily" => AddDays(last_date, horizon) = forecast_end_date
            /\ (freq # "Daily" /\ horizon < DayCount) =>
                    AddDays(last_date, horizon) < forecast_end_date

\* C27: with a last observation at 00:00, for every frequency and every
\* end date from the next day on, the horizon is at most the number of days
\* between the two, last_date + horizon days is not after the end date, and
\* no future timestamp of the linear path is after the end date (the filter
\* of line 625 keeps them all).
C27_HorizonAtMostDayCount ==
    (pc = "horizon: done" /\ last_date = DateOf(last_date)) =>
        /\ horizon <= DeltaDays(forecast_end_date, last_date)
        /\ AddDays(last_date, horizon) <= forecast_end_date
        /\ \A ts \in Range(FutureDates(last_date, horizon + 1)) : ts <= forecast_end_date

\* C27 witness: Monthly from 2024-01-31 to 2024-02-01: the month
\* difference 1 equals the day count 1.
C27_MonthEndToNextDay ==
    /\ pc = "horizon: done"
    /\ freq = "Monthly"
    /\ last_date = Timestamp(2024, 1, 31, 0)
    /\ forecast_end_date = Timestamp(2024, 2, 1, 0)
    /\ horizon = 1
    /\ FutureDates(last_date, horizon + 1) = <<forecast_end_date>>

\* every selected item has fewer than 2 rows
AllItemsShort == \A it \in Range(selected_items) : Len(RowsOf(it)) < 2

\* what a run renders from line 627 on, and the handler's message
ResultOutput ==
    {"forecast preview", "chart", "accuracy metrics", "download button", "success",
     "error: forecast failed"}

\* C28: a per-item run whose selected items all have fewer than 2 rows
\* never renders a result nor the "Forecast failed" message, and it ends
\* stopped, with "No forecasts generated" as its last output and a warning
\* for every item.
C28_AllSkippedStops ==
    (GroupedRun /\ AllItemsShort) =>
        /\ \A m \in Range(ui) : m.kind \notin ResultOutput
        /\ combined_result = <<>>
        /\ metrics = <<>>
        /\ pc \notin {"evaluate", "done", "failed"}
        /\ Ended =>
                /\ pc = "stopped"
                /\ ui[Len(ui)] = Say("error: no forecasts generated")
                /\ \A it \in Range(selected_items) : Warned(it)

\* C28 witness: a stopped run that selected two items with one row each.
C28_BothItemsSkipped ==
    /\ pc = "stopped"
    /\ GroupedRun
    /\ Len(selected_items) = 2
    /\ AllItemsShort
    /\ Shown(Say("error: no forecasts generated")) = 1

\* the uploaded row r has a timestamp and a value but no item key
KeylessOnly(r) == r.item = ItemNA /\ ToDatetime(r.date) # NaT /\ ~IsNaN(r.value)

\* C29: after a preparation that did not stop, with an item column chosen
\* no prepared row lacks its item key, and the prepared rows are the valid
\* uploaded rows of the selection less those without a key, whether items
\* were selected or not; with no item column chosen the prepared rows are
\* all the uploaded rows that have a timestamp and a value.
C29_KeylessRowsDropped ==
    (Prepared /\ pc # "stopped") =>
        IF item_col # "No filter"
        THEN /\ \A r \in Range(df) : r.item # ItemNA
             /\ \A r \in Range(Raw) : KeylessOnly(r) => CountOf(df, Canonical(r)) = 0
             /\ SameRows(df, SelectSeq(ValidRows, LAMBDA r : r.item # ItemNA))
        ELSE /\ Len(df) = Card({i \in DOMAIN Raw :
                                  ToDatetime(Raw[i].date) # NaT /\ ~IsNaN(Raw[i].value)})
             /\ \A i \in DOMAIN Raw :
                    (ToDatetime(Raw[i].date) # NaT /\ ~IsNaN(Raw[i].value)) =>
                        CountOf(df, Canonical(Raw[i])) >= 1

\* C29 witness: pooled mode with an item column; a row with a timestamp
\* and a value but no key was uploaded next to a keyed one, and only the
\* keyed one was prepared.
C29_PooledKeylessRowGone ==
    /\ Prepared /\ pc # "stopped"
    /\ item_col # "No filter"
    /\ selected_items = <<>>
    /\ \E r \in Range(Raw) : KeylessOnly(r)
    /\ Len(df) = 1
    /\ Len(Raw) = 2

\* C30: in every script run the rendered section is the one the radio
\* names, and a run started by a quick-action button leaves the rendered
\* section and the radio selection as they were, whatever
\* st.session_state.nav holds.
C30_ButtonsLeaveSectionAndRadio ==
    [][/\ page' = selected_nav'
       /\ clicked' # NoButton => (page' = page /\ selected_nav' = selected_nav)]_vars

\* C30 witness: after two button clicks st.session_state.nav names the
\* Contact section while the radio and the rendered section are still Home.
C30_ClickedTwiceStillHome ==
    /\ reruns = 2
    /\ clicked = "Contact Me"
    /\ nav = "Contact"
    /\ selected_nav = "Home"
    /\ page = "Home"

====
